---- MODULE Spec2Model ----
(***************************************************************************)
(* A model of the single-file, page-oriented key-value store of            *)
(* src/src/kvstore.c (declarations in src/include/kvstore.h).              *)
(*                                                                         *)
(* The file is a header page (page 0) followed by 4096-byte pages.  A page *)
(* is its 16-byte page header (page_type, checksum, reserved) and a body;  *)
(* the body is kept as the sequence of bytes the program wrote at its      *)
(* start, every byte after them being 0 (each page write is a whole page   *)
(* that was memset to 0 first).  The handle holds the in-memory header and *)
(* the hash index (HASH_TABLE_SIZE bucket chains, newest entry first).     *)
(*                                                                         *)
(* Environment: pread/pwrite may fail; a failed transfer moves no bytes.   *)
(* malloc/calloc/strdup succeed.  The process may stop while a handle is   *)
(* open (the in-memory header and index are lost, the file stays).         *)
(***************************************************************************)
EXTENDS Integers, Sequences, FiniteSets, TLC

\* ---------------------------------------------------------------- constants
PAGE_SIZE == 4096
MAGIC == 56065
VERSION == 1
PAGE_TYPE_EMPTY == 0
PAGE_TYPE_DATA == 1
PAGE_TYPE_DELETED == 2
HASH_TABLE_SIZE == 1024
\* sizeof(struct page_header): two uint32_t and one uint64_t, packed
PAGE_HEADER_SIZE == 16
\* sizeof(uint32_t), the width of the key_len and val_len fields of a record
LEN_FIELD_SIZE == 4

\* ------------------------------------------------------------------- bounds
\* largest page number the file may grow to
MaxPage == 2
\* number of failed transfers and process stops injected in one behaviour
MaxFaults == 1

\* ------------------------------------------------------------------- inputs
\* Keys: <<27>> and <<27, 0>> hash to the same bucket and one is a prefix of
\* the other.
Keys == { <<27>>, <<27, 0>> }
Vals == { <<>>, <<5>> }
\* The lengths a caller passes with a key and a value: those of the two
\* buffers, or, for one key and value, lengths beyond the short buffers (the
\* caller's buffer is then the short sequence followed by zero bytes):
\*   16 + 4 + 4073 + 4 + 0 = 4097 exceeds the page by one byte;
\*   with 2147483647 and 0 the sum exceeds the page and fits 32 bits;
\*   with 2147483647 twice the sum is 2^32 + 22.
HugeLens == { << 4073, 0 >>, << 2147483647, 0 >>, << 2147483647, 2147483647 >> }

PutLens(key, val) ==
    { << Len(key), Len(val) >> }
      \cup (IF key = << 27 >> /\ val = << >> THEN HugeLens ELSE { })

\* byte i (1-based) of a caller's buffer
BufByte(buf, i) == IF i <= Len(buf) THEN buf[i] ELSE 0
\* memcpy(dst, buf, n): the n bytes copied
BufCopy(buf, n) == [i \in 1..n |-> BufByte(buf, i)]

Min(a, b) == IF a < b THEN a ELSE b
Max(a, b) == IF a < b THEN b ELSE a

\* ------------------------------------------------------------ 32-bit words
\* A uint32_t is computed in two 16-bit limbs <<hi, lo>> so that no
\* intermediate value leaves the range of the checker's integers.
Limb == 65536
U32(n) == << n \div Limb, n % Limb >>

\* uint32_t required = sizeof(struct page_header) + sizeof(uint32_t) + key_len
\*                     + sizeof(uint32_t) + val_len;
\* the sum is formed in size_t and truncated to 32 bits by the assignment.
RequiredLimbs(key_len, val_len) ==
    LET k == U32(key_len)
        v == U32(val_len)
        lo == PAGE_HEADER_SIZE + LEN_FIELD_SIZE + k[2] + LEN_FIELD_SIZE + v[2]
        hi == k[1] + v[1] + (lo \div Limb)
    IN  << hi % Limb, lo % Limb >>

\* if (required > PAGE_SIZE)
RequiredTooBig(key_len, val_len) ==
    LET r == RequiredLimbs(key_len, val_len)
    IN  r[1] > 0 \/ r[2] > PAGE_SIZE

\* The encoded size of the record as a mathematical integer exceeds the page.
RecordExceedsPage(key_len, val_len) ==
    LET room == PAGE_SIZE - PAGE_HEADER_SIZE - 2 * LEN_FIELD_SIZE
    IN  key_len > room \/ val_len > room \/ key_len + val_len > room

\* ------------------------------------------------------------------- hash
\* hash = ((hash << 5) + hash) + key[i], in uint32_t: the two limbs of the
\* new hash from the limbs hi, lo of the old one and the byte c
HashLo(lo, c) == (lo * 33 + c) % Limb
HashHi(hi, lo, c) == (hi * 33 + ((lo * 33 + c) \div Limb)) % Limb

RECURSIVE HashLoop(_, _, _, _, _)
\* for (i = 0; i < key_len; i++): the bytes i..n (1-based) of the key
HashLoop(hi, lo, key, i, n) ==
    IF i > n THEN << hi, lo >>
    ELSE HashLoop(HashHi(hi, lo, BufByte(key, i)), HashLo(lo, BufByte(key, i)),
                  key, i + 1, n)

\* hash_key: djb2 from 5381 over key_len bytes, reduced modulo HASH_TABLE_SIZE.
\* For a length beyond the short buffer the remaining bytes are 0 and each
\* multiplies the hash by 33; HASH_TABLE_SIZE divides 2^32 and 33^32 = 1
\* modulo 1024, so the bucket depends on the number of those zero bytes
\* modulo 32 only.
hash_key(key, key_len) ==
    LET n == IF key_len <= Len(key) THEN key_len
             ELSE Len(key) + ((key_len - Len(key)) % 32)
        h == HashLoop(U32(5381)[1], U32(5381)[2], key, 1, n)
    \* hash % HASH_TABLE_SIZE: Limb is a multiple of HASH_TABLE_SIZE, so the
    \* low limb decides
    IN  h[2] % HASH_TABLE_SIZE

\* ------------------------------------------------------------------ index
\* The table is the function from the numbers of its non-NULL buckets to their
\* chains (newest entry first); every other bucket of the HASH_TABLE_SIZE is
\* NULL.
Buckets == 0..(HASH_TABLE_SIZE - 1)

\* hash_table_create: calloc, every bucket NULL
hash_table_create == [b \in {} |-> << >>]

\* ht->buckets[bucket] as a sequence of entries
Chain(ht, bucket) == IF bucket \in DOMAIN ht THEN ht[bucket] ELSE << >>

\* ht->buckets[bucket] = chain
SetChain(ht, bucket, chain) ==
    IF chain = << >>
    THEN [b \in DOMAIN ht \ {bucket} |-> ht[b]]
    ELSE [b \in DOMAIN ht \cup {bucket} |-> IF b = bucket THEN chain ELSE ht[b]]

\* a comparison that leaves out the length: memcmp over the shorter of the two
EntryMatchesPrefix(e, key, key_len) ==
    \A i \in 1..Min(e.key_len, key_len) : e.key[i] = BufByte(key, i)

\* entry->key_len == key_len && memcmp(entry->key, key, key_len) == 0
EntryMatches(e, key, key_len) ==
    /\ e.key_len = key_len
    /\ \A i \in 1..Len(e.key) : e.key[i] = BufByte(key, i)

\* hash_table_insert: a new entry at the head of its bucket's chain, whether
\* or not the key already has an entry
hash_table_insert(ht, key, key_len, page_num) ==
    LET bucket == hash_key(key, key_len)
        entry == [key |-> BufCopy(key, key_len), key_len |-> key_len,
                  page_num |-> page_num]
    IN  SetChain(ht, bucket, << entry >> \o Chain(ht, bucket))

RECURSIVE ChainFind(_, _, _, _)
\* position of the first entry of the chain, from i on, that matches; 0 if none
ChainFind(chain, key, key_len, i) ==
    IF i > Len(chain) THEN 0
    ELSE IF EntryMatches(chain[i], key, key_len) THEN i
    ELSE ChainFind(chain, key, key_len, i + 1)

\* hash_table_lookup: page number of the first matching entry, 0 if none
hash_table_lookup(ht, key, key_len) ==
    LET chain == Chain(ht, hash_key(key, key_len))
        i == ChainFind(chain, key, key_len, 1)
    IN  IF i = 0 THEN 0 ELSE chain[i].page_num

\* hash_table_remove: unlinks the first matching entry only
hash_table_remove(ht, key, key_len) ==
    LET bucket == hash_key(key, key_len)
        chain == Chain(ht, bucket)
        i == ChainFind(chain, key, key_len, 1)
    IN  IF i = 0 THEN ht
        ELSE SetChain(ht, bucket,
                 SubSeq(chain, 1, i - 1) \o SubSeq(chain, i + 1, Len(chain)))

\* every entry of the table
IndexEntries(ht) ==
    UNION { { ht[b][i] : i \in 1..Len(ht[b]) } : b \in DOMAIN ht }

\* ------------------------------------------------------------------ records
\* struct db_header without its reserved padding
Header(magic, version, page_size, num_pages, next_free_page, free_list_head) ==
    [magic |-> magic, version |-> version, page_size |-> page_size,
     num_pages |-> num_pages, next_free_page |-> next_free_page,
     free_list_head |-> free_list_head]

\* a first header that counts no page yet
NewHeaderNoPage == Header(MAGIC, VERSION, PAGE_SIZE, 0, 1, 0)

\* the header init_new_db writes
NewHeader == Header(MAGIC, VERSION, PAGE_SIZE, 1, 1, 0)
\* the header field of a handle that does not exist
NoHeader == Header(0, 0, 0, 0, 0, 0)

\* a page: struct page_header and the written start of the body
Page(page_type, reserved, body) ==
    [page_type |-> page_type, checksum |-> 0, reserved |-> reserved,
     body |-> body]
\* a page of a hole of the file, or one never written: all bytes 0
ZeroPage == Page(PAGE_TYPE_EMPTY, 0, << >>)

\* a uint32_t in memory, little-endian
U32Bytes(n) ==
    << n % 256, (n \div 256) % 256, (n \div 65536) % 256, n \div 16777216 >>
\* byte i (1-based) of a page body; bytes after the written start are 0
BodyByte(body, i) == IF i <= Len(body) THEN body[i] ELSE 0
\* memcpy(&x, p, sizeof(uint32_t)) at body offset off (0-based)
ReadU32(body, off) ==
    BodyByte(body, off + 1) + 256 * BodyByte(body, off + 2)
      + 65536 * BodyByte(body, off + 3) + 16777216 * BodyByte(body, off + 4)
\* the n body bytes from offset off (0-based) on
ReadBytes(body, off, n) == [i \in 1..n |-> BodyByte(body, off + i)]

\* the page db_put builds in page_buf: type DATA, checksum 0, reserved 0,
\* then key_len, key, val_len, val
DataPage(key, key_len, val, val_len) ==
    Page(PAGE_TYPE_DATA, 0,
         U32Bytes(key_len) \o BufCopy(key, key_len)
           \o U32Bytes(val_len) \o BufCopy(val, val_len))

\* the key length db_open reads at the start of a page body
StoredKeyLen(body) == ReadU32(body, 0)

\* the key taken without stepping over the length field before it
StoredKeyAtLen(body) == ReadBytes(body, 0, StoredKeyLen(body))

\* p += sizeof(uint32_t): the key db_open hands to hash_table_insert
StoredKey(body) == ReadBytes(body, LEN_FIELD_SIZE, StoredKeyLen(body))

\* a freed page that does not record the page freed before it
DeletedPageNoLink(next) == Page(PAGE_TYPE_DELETED, 0, << >>)

\* the page free_page builds: zeroed, type DELETED, reserved = next free page
DeletedPage(next) == Page(PAGE_TYPE_DELETED, next, << >>)

\* outcomes reported to the caller
Found(val) == [found |-> TRUE, val |-> val]
NotFound == [found |-> FALSE, val |-> << >>]

\* ---------------------------------------------------------------- variables
VARIABLES
    file_exists,  \* the path names a file
    file_size,    \* its size in whole pages (page 0 is the header)
    disk_hdr,     \* the header stored in page 0
    disk,         \* the pages after the header page, by number
    is_open,      \* a handle exists
    header,       \* db->header
    index,        \* db->index
    ret,          \* the last call and what it returned
    faults,       \* failed transfers and process stops so far
    \* history, for stating properties:
    shadow,       \* per key, the value of the last put not followed by a delete
    at_close,     \* the header and every key's db_get result at the last db_close
    freed,        \* pages freed and not written again, oldest free first
    idle,         \* no db_put or db_delete was called on the handle yet
    last_over,    \* the key and the value last replaced by a successful db_put
    grow          \* growth runs (SpecGrow): the most keys present at a time

vars == << file_exists, file_size, disk_hdr, disk, is_open, header, index,
           ret, faults, shadow, at_close, freed, idle, last_over, grow >>

file == << file_exists, file_size, disk_hdr, disk >>
handle == << is_open, header, index >>

Pages == 1..MaxPage
\* the pages the file model holds
DiskPages == 1..(MaxPage + 1)
\* A growth run injects no failure and lets the file grow one page further.
PageLimit == IF grow.on THEN MaxPage + 1 ELSE MaxPage
FaultLimit == IF grow.on THEN 0 ELSE MaxFaults

\* pread of page page_num transfers a whole page
CanRead(size, page_num) == page_num < size

\* pwrite of one page at page_num * PAGE_SIZE
WritePage(d, page_num, page) == [d EXCEPT ![page_num] = page]
SizeAfterWrite(size, page_num) == Max(size, page_num + 1)

\* ------------------------------------------------------------- allocator
RECURSIVE FreeListFrom(_, _, _)
\* the pages alloc_page would hand out one after the other from page_num on,
\* each the reserved field of the one before, as far as n pages; the walk ends
\* at 0 and at a page number outside the file model
FreeListFrom(page_num, d, n) ==
    IF page_num = 0 \/ n = 0 THEN << >>
    ELSE IF page_num \notin DOMAIN d THEN << page_num >>
    ELSE << page_num >> \o FreeListFrom(d[page_num].reserved, d, n - 1)

\* the free list of a header: longer than the file model has pages only if it
\* runs in a cycle
FreeList(hdr, d) == FreeListFrom(hdr.free_list_head, d, MaxPage + 2)

\* the number of index entries that name page_num
Refs(ht, page_num) ==
    Cardinality({ bi \in UNION { { << b, i >> : i \in 1..Len(ht[b]) } : b \in DOMAIN ht } :
                    ht[bi[1]][bi[2]].page_num = page_num })

\* an alloc_page that takes the head off the list before it has read the page
alloc_page_unlinks_first(hdr, d, size, read_fails) ==
    IF hdr.free_list_head # 0
    THEN LET page_num == hdr.free_list_head
         IN  IF read_fails \/ ~CanRead(size, page_num)
             THEN [page_num |-> 0, header |-> [hdr EXCEPT !.free_list_head = 0]]
             ELSE [page_num |-> page_num,
                   header |-> [hdr EXCEPT !.free_list_head = d[page_num].reserved]]
    ELSE [page_num |-> hdr.next_free_page,
          header |-> [hdr EXCEPT !.next_free_page = @ + 1, !.num_pages = @ + 1]]

\* an alloc_page that never takes a page from the free list
alloc_page_fresh_only(hdr, d, size, read_fails) ==
    [page_num |-> hdr.next_free_page,
     header |-> [hdr EXCEPT !.next_free_page = @ + 1, !.num_pages = @ + 1]]

\* an alloc_page that forgets num_pages when it extends the file
alloc_page_no_count(hdr, d, size, read_fails) ==
    IF hdr.free_list_head # 0
    THEN LET page_num == hdr.free_list_head
         IN  IF read_fails \/ ~CanRead(size, page_num)
             THEN [page_num |-> 0, header |-> hdr]
             ELSE [page_num |-> page_num,
                   header |-> [hdr EXCEPT !.free_list_head = d[page_num].reserved]]
    ELSE [page_num |-> hdr.next_free_page,
          header |-> [hdr EXCEPT !.next_free_page = @ + 1]]

\* alloc_page: the page number handed out (0: the read of the free-list head
\* failed) and the header after the call
alloc_page(hdr, d, size, read_fails) ==
    IF hdr.free_list_head # 0
    THEN LET page_num == hdr.free_list_head
         IN  IF read_fails \/ ~CanRead(size, page_num)
             THEN [page_num |-> 0, header |-> hdr]
             ELSE [page_num |-> page_num,
                   header |-> [hdr EXCEPT !.free_list_head = d[page_num].reserved]]
    ELSE [page_num |-> hdr.next_free_page,
          header |-> [hdr EXCEPT !.next_free_page = @ + 1, !.num_pages = @ + 1]]

\* a free_page that makes the page the head before it knows the write went
\* through
free_page_head_first(hdr, d, size, page_num, write_fails) ==
    IF write_fails
    THEN [rc |-> -1, header |-> [hdr EXCEPT !.free_list_head = page_num],
          disk |-> d, size |-> size]
    ELSE [rc |-> 0,
          header |-> [hdr EXCEPT !.free_list_head = page_num],
          disk |-> WritePage(d, page_num, DeletedPage(hdr.free_list_head)),
          size |-> SizeAfterWrite(size, page_num)]

\* free_page: writes a DELETED page linking to the current head, and only
\* after a successful write makes it the head
free_page(hdr, d, size, page_num, write_fails) ==
    IF write_fails
    THEN [rc |-> -1, header |-> hdr, disk |-> d, size |-> size]
    ELSE [rc |-> 0,
          header |-> [hdr EXCEPT !.free_list_head = page_num],
          disk |-> WritePage(d, page_num, DeletedPage(hdr.free_list_head)),
          size |-> SizeAfterWrite(size, page_num)]

\* ------------------------------------------------------------------- open
\* a read_header that does not look at the version
read_header_no_version(size, hdr, read_fails) ==
    IF read_fails \/ ~CanRead(size, 0) THEN "EIO"
    ELSE IF hdr.magic # MAGIC THEN "EINVAL"
    ELSE IF hdr.page_size # PAGE_SIZE THEN "EINVAL"
    ELSE "OK"

\* read_header: "OK", or the errno of the failure
read_header(size, hdr, read_fails) ==
    IF read_fails \/ ~CanRead(size, 0) THEN "EIO"
    ELSE IF hdr.magic # MAGIC THEN "EINVAL"
    ELSE IF hdr.version # VERSION THEN "EINVAL"
    ELSE IF hdr.page_size # PAGE_SIZE THEN "EINVAL"
    ELSE "OK"

RECURSIVE ScanPages(_, _, _, _, _, _)
\* the index-rebuild loop of db_open from page_num on: a page that cannot be
\* read or is not a DATA page is skipped, every other page is inserted under
\* the key stored in it
ScanPages(ht, d, size, page_num, next_free_page, failing) ==
    IF page_num >= next_free_page THEN ht
    ELSE IF page_num \in failing \/ ~CanRead(size, page_num)
         THEN ScanPages(ht, d, size, page_num + 1, next_free_page, failing)
    ELSE IF d[page_num].page_type # PAGE_TYPE_DATA
         THEN ScanPages(ht, d, size, page_num + 1, next_free_page, failing)
    ELSE LET body == d[page_num].body
         IN  ScanPages(hash_table_insert(ht, StoredKey(body),
                                         StoredKeyLen(body), page_num),
                       d, size, page_num + 1, next_free_page, failing)

\* -------------------------------------------------------------------- get
\* a db_get that reports a stored length of 0 the way it reports absence
GetResultEmptyAbsent(ht, d, size, key, key_len, read_fails) ==
    LET page_num == hash_table_lookup(ht, key, key_len)
    IN  IF page_num = 0 THEN [rc |-> "ENOENT", val |-> << >>, val_len |-> 0]
        ELSE IF read_fails \/ ~CanRead(size, page_num)
             THEN [rc |-> "EIO", val |-> << >>, val_len |-> 0]
        ELSE LET body == d[page_num].body
                 off == LEN_FIELD_SIZE + key_len
                 val_len == ReadU32(body, off)
             IN  IF RecordExceedsPage(key_len, val_len)
                 THEN [rc |-> "OVERREAD", val |-> << >>, val_len |-> val_len]
                 ELSE IF val_len = 0
                 THEN [rc |-> "ENOENT", val |-> << >>, val_len |-> 0]
                 ELSE [rc |-> "OK",
                       val |-> ReadBytes(body, off + LEN_FIELD_SIZE, val_len),
                       val_len |-> val_len]

\* db_get: the errno ("OK" when a value is returned), the value and its length.
\* The value length is read behind key_len bytes of the page, key_len being the
\* caller's.  "OVERREAD": the length read reaches beyond page_buf.
\* malloc(val_len) returns a pointer, for val_len = 0 as well: that is what the
\* C library the program is built with does (ISO C leaves malloc(0) free to
\* return NULL, and db_get would then return NULL for an empty value).
GetResult(ht, d, size, key, key_len, read_fails) ==
    LET page_num == hash_table_lookup(ht, key, key_len)
    IN  IF page_num = 0 THEN [rc |-> "ENOENT", val |-> << >>, val_len |-> 0]
        ELSE IF read_fails \/ ~CanRead(size, page_num)
             THEN [rc |-> "EIO", val |-> << >>, val_len |-> 0]
        ELSE LET body == d[page_num].body
                 off == LEN_FIELD_SIZE + key_len
                 val_len == ReadU32(body, off)
             IN  IF RecordExceedsPage(key_len, val_len)
                 THEN [rc |-> "OVERREAD", val |-> << >>, val_len |-> val_len]
                 ELSE [rc |-> "OK",
                       val |-> ReadBytes(body, off + LEN_FIELD_SIZE, val_len),
                       val_len |-> val_len]

\* what a db_get(key) whose page read succeeds reports in this state
Outcome(ht, d, size, key) ==
    LET g == GetResult(ht, d, size, key, Len(key), FALSE)
    IN  IF g.rc = "OK" THEN Found(g.val)
        ELSE IF g.rc = "ENOENT" THEN NotFound
        ELSE [found |-> FALSE, val |-> << -1 >>]

View == [k \in Keys |-> Outcome(index, disk, file_size, k)]

\* ------------------------------------------------------------------- state
\* the last call: its name, the errno it left ("OK": success), its key and
\* value (for db_get the value returned), the page alloc_page gave a db_put
\* for its record (0: none), and for db_open whether the file was created
Ret(op, rc, key, key_len, val, val_len, page, created) ==
    [op |-> op, rc |-> rc, key |-> key, key_len |-> key_len, val |-> val,
     val_len |-> val_len, page |-> page, created |-> created]

B(flag) == IF flag THEN 1 ELSE 0

NoShadow == [k \in Keys |-> NotFound]
NoSnapshot == [valid |-> FALSE, header |-> NoHeader, view |-> NoShadow]
\* last_over: the value a successful db_put has superseded most recently and
\* that has not been put again since; kept only in behaviours that start with
\* the record switched on (SpecOver)
Over(on, valid, key, val) == [on |-> on, valid |-> valid, key |-> key, val |-> val]
NoOver == Over(TRUE, FALSE, << >>, << >>)
OverOff == Over(FALSE, FALSE, << >>, << >>)

\* The history after a step.  shadow and at_close are kept up to the first
\* failed transfer or process stop only.
Track(new_shadow, new_at_close, new_freed, new_idle, new_last_over) ==
    /\ shadow' = IF faults' = 0 THEN new_shadow ELSE NoShadow
    /\ at_close' = IF faults' = 0 THEN new_at_close ELSE NoSnapshot
    /\ freed' = new_freed
    /\ idle' = new_idle
    /\ last_over' = IF last_over.on THEN new_last_over ELSE last_over
    /\ grow' = IF grow.on
               THEN [grow EXCEPT !.peak =
                        Max(@, Cardinality({ e.key : e \in IndexEntries(index') }))]
               ELSE grow

\* Files found at the path before the first db_open: none, an empty file, or
\* one page written by someone else, its header fields right or wrong.
ForeignHeaders ==
    { Header(m, v, ps, 1, 1, 0) :
        m \in {MAGIC, 0}, v \in {VERSION, 0}, ps \in {PAGE_SIZE, 0} }

Start(over, growing) ==
    /\ \/ file_exists = FALSE /\ file_size = 0 /\ disk_hdr = NoHeader
       \/ file_exists = TRUE /\ file_size = 0 /\ disk_hdr = NoHeader
       \/ file_exists = TRUE /\ file_size = 1 /\ disk_hdr \in ForeignHeaders
    /\ disk = [p \in DiskPages |-> ZeroPage]
    /\ is_open = FALSE
    /\ header = NoHeader
    /\ index = hash_table_create
    /\ ret = Ret("none", "OK", << >>, 0, << >>, 0, 0, FALSE)
    /\ faults = 0
    /\ shadow = NoShadow
    /\ at_close = NoSnapshot
    /\ freed = << >>
    /\ idle = FALSE
    /\ last_over = over
    /\ grow = [on |-> growing, peak |-> 0]

Init == Start(OverOff, FALSE)

InitOver == Start(NoOver, FALSE)

InitGrow == Start(OverOff, TRUE)

\* ----------------------------------------------------------------- db_open
db_open ==
    /\ ~is_open
    /\ \E f_write \in BOOLEAN, f_sync \in BOOLEAN, f_read \in BOOLEAN,
          failing \in SUBSET Pages :
         LET is_new == ~file_exists
             \* init_new_db: pwrite of the header, then fsync
             wrote == is_new /\ ~f_write
             init_rc == IF is_new /\ (f_write \/ f_sync) THEN -1 ELSE 0
             size1 == IF wrote THEN SizeAfterWrite(file_size, 0) ELSE file_size
             hdr1 == IF wrote THEN NewHeader ELSE disk_hdr
             errno == IF init_rc # 0 THEN "EIO"
                      ELSE read_header(size1, hdr1, f_read)
             n == B(f_write) + B(f_sync) + B(f_read) + Cardinality(failing)
         IN  /\ f_write => is_new
             /\ f_sync => is_new /\ ~f_write
             /\ f_read => init_rc = 0 /\ CanRead(size1, 0)
             /\ \A p \in failing :
                    errno = "OK" /\ p < hdr1.next_free_page /\ CanRead(size1, p)
             /\ faults + n <= FaultLimit
             /\ faults' = faults + n
             /\ file_exists' = TRUE
             /\ file_size' = size1
             /\ disk_hdr' = hdr1
             /\ disk' = disk
             /\ is_open' = (errno = "OK")
             /\ header' = IF errno = "OK" THEN hdr1 ELSE NoHeader
             /\ index' = IF errno = "OK"
                         THEN ScanPages(hash_table_create, disk, size1, 1,
                                        hdr1.next_free_page, failing)
                         ELSE hash_table_create
             /\ ret' = Ret("open", errno, << >>, 0, << >>, 0, 0, is_new)
             /\ Track(shadow, at_close, freed, errno = "OK", last_over)

\* ---------------------------------------------------------------- db_close
\* the header is written back (the result of the write is not looked at) and
\* the handle is released
db_close ==
    /\ is_open
    /\ \E f_write \in BOOLEAN :
         /\ faults + B(f_write) <= FaultLimit
         /\ faults' = faults + B(f_write)
         /\ disk_hdr' = IF f_write THEN disk_hdr ELSE header
         /\ file_size' = IF f_write THEN file_size
                         ELSE SizeAfterWrite(file_size, 0)
         /\ UNCHANGED << file_exists, disk >>
         /\ is_open' = FALSE
         /\ header' = NoHeader
         /\ index' = hash_table_create
         /\ ret' = Ret("close", "OK", << >>, 0, << >>, 0, 0, FALSE)
         /\ Track(shadow, [valid |-> TRUE, header |-> header, view |-> View],
                  freed, FALSE, last_over)

\* the process stops with the handle open: nothing is flushed
Stop(op, key, key_len, new_disk, new_size, new_freed) ==
    /\ faults < FaultLimit
    /\ faults' = faults + 1
    /\ disk' = new_disk
    /\ file_size' = new_size
    /\ UNCHANGED << file_exists, disk_hdr >>
    /\ is_open' = FALSE
    /\ header' = NoHeader
    /\ index' = hash_table_create
    /\ ret' = Ret(op, "STOPPED", key, key_len, << >>, 0, 0, FALSE)
    /\ Track(shadow, NoSnapshot, new_freed, FALSE, last_over)

Crash ==
    /\ is_open
    /\ Stop("crash", << >>, 0, disk, file_size, freed)

\* The record of freed pages: the pages free_page has written and no record
\* was written to since, in the order of their last free_page; out marks those
\* alloc_page has handed out since.
FreedDrop(pages, page_num) ==
    LET Keep(e) == e.page # page_num IN SelectSeq(pages, Keep)
FreedPush(pages, page_num) ==
    Append(FreedDrop(pages, page_num), [page |-> page_num, out |-> FALSE])
FreedOut(pages, page_num) ==
    [i \in 1..Len(pages) |->
        IF pages[i].page = page_num THEN [pages[i] EXCEPT !.out = TRUE]
        ELSE pages[i]]
\* the freed pages alloc_page has not handed out again
FreedIn(pages) ==
    LET Keep(e) == ~e.out IN SelectSeq(pages, Keep)

\* ------------------------------------------------------------------ db_put
db_put ==
    /\ is_open
    /\ \E key \in Keys, val \in Vals :
       \E lens \in PutLens(key, val) :
       \E f_alloc \in BOOLEAN, f_free \in BOOLEAN, f_write \in BOOLEAN :
         LET key_len == lens[1]
             val_len == lens[2]
             too_big == RequiredTooBig(key_len, val_len)
             old_page_num == hash_table_lookup(index, key, key_len)
             from_list == header.free_list_head # 0
             a == alloc_page(header, disk, file_size, f_alloc)
             new_page_num == a.page_num
             allocated == ~too_big /\ new_page_num # 0
             \* if (old_page_num != 0) { hash_table_remove; free_page; }
             index1 == IF old_page_num # 0
                       THEN hash_table_remove(index, key, key_len) ELSE index
             fr == IF old_page_num # 0
                   THEN free_page(a.header, disk, file_size, old_page_num, f_free)
                   ELSE [rc |-> 0, header |-> a.header, disk |-> disk,
                         size |-> file_size]
             \* memcpy of key_len and val_len bytes into the 4096-byte page_buf
             overflows == RecordExceedsPage(key_len, val_len)
             page == DataPage(key, key_len, val, val_len)
             n == B(f_alloc) + B(f_free) + B(f_write)
             \* history
             freed1 == IF from_list THEN FreedOut(freed, new_page_num) ELSE freed
             freed2 == IF old_page_num # 0 /\ fr.rc = 0
                       THEN FreedPush(freed1, old_page_num) ELSE freed1
             shadow1 == [shadow EXCEPT ![key] = Found(val)]
             prior == View[key]
             again == IF last_over.valid /\ last_over.key = key
                         /\ last_over.val = val
                      THEN NoOver ELSE last_over
             over == IF prior.found /\ prior.val # val
                     THEN Over(TRUE, TRUE, key, prior.val)
                     ELSE again
         IN  /\ f_alloc => ~too_big /\ from_list
                             /\ CanRead(file_size, header.free_list_head)
             /\ f_free => allocated /\ old_page_num # 0
             /\ f_write => allocated /\ ~overflows
             /\ allocated => new_page_num <= PageLimit
             /\ faults + n <= FaultLimit
             /\ IF too_big
                THEN /\ ret' = Ret("put", "EFBIG", key, key_len, val, val_len,
                                   0, FALSE)
                     /\ UNCHANGED << file, handle, faults >>
                     /\ Track(shadow, NoSnapshot, freed, FALSE, last_over)
                ELSE IF new_page_num = 0
                THEN /\ ret' = Ret("put", "EIO", key, key_len, val, val_len,
                                   0, FALSE)
                     /\ faults' = faults + n
                     /\ header' = a.header
                     /\ UNCHANGED << file, is_open, index >>
                     /\ Track(shadow1, NoSnapshot, freed, FALSE, again)
                ELSE IF overflows
                \* the copy runs far past the stack buffer: the process is killed
                THEN Stop("put", key, key_len, fr.disk, fr.size, freed2)
                ELSE IF f_write
                THEN /\ ret' = Ret("put", "EIO", key, key_len, val, val_len,
                                   new_page_num, FALSE)
                     /\ faults' = faults + n
                     /\ disk' = fr.disk
                     /\ file_size' = fr.size
                     /\ header' = fr.header
                     /\ index' = index1
                     /\ UNCHANGED << file_exists, disk_hdr, is_open >>
                     /\ Track(shadow1, NoSnapshot, freed2, FALSE, again)
                ELSE /\ ret' = Ret("put", "OK", key, key_len, val, val_len,
                                   new_page_num, FALSE)
                     /\ faults' = faults + n
                     /\ disk' = WritePage(fr.disk, new_page_num, page)
                     /\ file_size' = SizeAfterWrite(fr.size, new_page_num)
                     /\ header' = fr.header
                     /\ index' = hash_table_insert(index1, key, key_len,
                                                   new_page_num)
                     /\ UNCHANGED << file_exists, disk_hdr, is_open >>
                     /\ Track(shadow1, NoSnapshot,
                              FreedDrop(freed2, new_page_num), FALSE, over)

\* ------------------------------------------------------------------ db_get
\* a db_get that drops the index entry of a page it could not read
db_get_evicts ==
    /\ is_open
    /\ \E key \in Keys, f_read \in BOOLEAN :
         LET key_len == Len(key)
             page_num == hash_table_lookup(index, key, key_len)
             g == GetResult(index, disk, file_size, key, key_len, f_read)
         IN  /\ f_read => page_num # 0 /\ CanRead(file_size, page_num)
             /\ faults + B(f_read) <= FaultLimit
             /\ IF g.rc = "OVERREAD"
                THEN Stop("get", key, key_len, disk, file_size, freed)
                ELSE /\ ret' = Ret("get", g.rc, key, key_len, g.val, g.val_len,
                                   0, FALSE)
                     /\ faults' = faults + B(f_read)
                     /\ index' = IF g.rc = "EIO"
                                 THEN hash_table_remove(index, key, key_len)
                                 ELSE index
                     /\ UNCHANGED << file, is_open, header >>
                     /\ Track(shadow, NoSnapshot, freed, idle, last_over)

db_get ==
    /\ is_open
    /\ \E key \in Keys, f_read \in BOOLEAN :
         LET key_len == Len(key)
             page_num == hash_table_lookup(index, key, key_len)
             g == GetResult(index, disk, file_size, key, key_len, f_read)
         IN  /\ f_read => page_num # 0 /\ CanRead(file_size, page_num)
             /\ faults + B(f_read) <= FaultLimit
             /\ IF g.rc = "OVERREAD"
                \* the copy out of page_buf runs far past the stack: the
                \* process is killed
                THEN Stop("get", key, key_len, disk, file_size, freed)
                ELSE /\ ret' = Ret("get", g.rc, key, key_len, g.val, g.val_len,
                                   0, FALSE)
                     /\ faults' = faults + B(f_read)
                     /\ UNCHANGED << file, handle >>
                     /\ Track(shadow, NoSnapshot, freed, idle, last_over)

\* --------------------------------------------------------------- db_delete
db_delete ==
    /\ is_open
    /\ \E key \in Keys, f_write \in BOOLEAN :
         LET key_len == Len(key)
             page_num == hash_table_lookup(index, key, key_len)
             fr == free_page(header, disk, file_size, page_num, f_write)
             shadow1 == [shadow EXCEPT ![key] = NotFound]
         IN  /\ f_write => page_num # 0
             /\ faults + B(f_write) <= FaultLimit
             /\ faults' = faults + B(f_write)
             /\ UNCHANGED << file_exists, disk_hdr, is_open >>
             /\ IF page_num = 0
                THEN /\ ret' = Ret("delete", "ENOENT", key, key_len, << >>, 0,
                                   0, FALSE)
                     /\ UNCHANGED << disk, file_size, header, index >>
                     /\ Track(shadow1, NoSnapshot, freed, FALSE, last_over)
                ELSE IF fr.rc # 0
                THEN /\ ret' = Ret("delete", "EIO", key, key_len, << >>, 0,
                                   0, FALSE)
                     /\ disk' = fr.disk
                     /\ file_size' = fr.size
                     /\ header' = fr.header
                     /\ index' = index
                     /\ Track(shadow1, NoSnapshot, freed, FALSE, last_over)
                ELSE /\ ret' = Ret("delete", "OK", key, key_len, << >>, 0,
                                   0, FALSE)
                     /\ disk' = fr.disk
                     /\ file_size' = fr.size
                     /\ header' = fr.header
                     /\ index' = hash_table_remove(index, key, key_len)
                     /\ Track(shadow1, NoSnapshot, FreedPush(freed, page_num),
                              FALSE, last_over)

Next == db_open \/ db_close \/ db_put \/ db_get \/ db_delete \/ Crash

Spec == Init /\ [][Next]_vars

\* the same program, with the record of superseded values kept
SpecOver == InitOver /\ [][Next]_vars

\* the calls alone: no process stop
NextGrow == db_open \/ db_close \/ db_put \/ db_get \/ db_delete

\* growth runs: no failed transfer, no process stop, one more page
SpecGrow == InitGrow /\ [][NextGrow]_vars

\* ================================================================== claims
\* C1: as long as no transfer has failed and the process has not stopped,
\* a db_get(k) returns the value, with its exact length, of the most recent
\* db_put(k, v) that no db_delete(k) followed, and ENOENT when there is none
\* (shadow holds exactly that per key; an oversized db_put is rejected and
\* counts for nothing).
C1_MapSemantics ==
    (faults = 0 /\ ret.op = "get") =>
        IF shadow[ret.key].found
        THEN /\ ret.rc = "OK"
             /\ ret.val = shadow[ret.key].val
             /\ ret.val_len = Len(shadow[ret.key].val)
        ELSE ret.rc = "ENOENT"

\* a db_get of <<27>> returns <<5>>, the last value put, on a handle that has
\* handed out two pages and freed one of them again
C1_Witness ==
    /\ faults = 0
    /\ ret.op = "get" /\ ret.rc = "OK"
    /\ ret.key = << 27 >> /\ ret.val = << 5 >> /\ ret.val_len = 1
    /\ shadow[<< 27 >>] = Found(<< 5 >>)
    /\ header.next_free_page = 3
    /\ header.free_list_head # 0

\* C2: after a fault-free history, a db_open that follows a db_close finds,
\* for every key, what db_get returned just before the close, and loads the
\* next_free_page, free_list_head and num_pages the handle had at the close.
C2_Persistence ==
    (ret.op = "open" /\ ret.rc = "OK" /\ at_close.valid) =>
        /\ View = at_close.view
        /\ header.next_free_page = at_close.header.next_free_page
        /\ header.free_list_head = at_close.header.free_list_head
        /\ header.num_pages = at_close.header.num_pages

\* a reopen after puts and a delete: two pages handed out, one of them free,
\* one key present
C2_Witness ==
    /\ ret.op = "open" /\ ret.rc = "OK" /\ at_close.valid
    /\ header.next_free_page = 3
    /\ header.free_list_head # 0
    /\ \E k \in Keys : View[k] = Found(<< 5 >>)

\* C3: a db_put(k, v2) that returns an I/O failure (EIO), be it from the
\* allocation or from the write of the new page, on a key that holds a value
\* leaves db_get(k) returning that value.
C3_FailedPutKeepsOld ==
    [][(ret'.op = "put" /\ ret'.rc = "EIO" /\ View[ret'.key].found)
          => View'[ret'.key] = View[ret'.key]]_vars

\* C4: once a successful db_put(k, v2) has replaced v1, no db_get(k) returns v1
\* again, in the same session or after db_close and db_open, unless v1 was put
\* again; page writes, the one that frees the old page included, may fail.
C4_Superseded ==
    ~ ( /\ ret.op = "get" /\ ret.rc = "OK"
        /\ last_over.valid
        /\ ret.key = last_over.key
        /\ ret.val = last_over.val )

\* C5: a db_put whose record, 16 + 4 + key_len + 4 + val_len bytes, exceeds
\* the page of 4096 bytes returns EFBIG and leaves the file, the header and
\* the index as they were, for every pair of 32-bit lengths.
C5_OversizedRejected ==
    [][(ret'.op = "put" /\ RecordExceedsPage(ret'.key_len, ret'.val_len))
          => (ret'.rc = "EFBIG" /\ UNCHANGED << file, handle >>)]_vars

\* C6: in every reachable state a db_delete(k) whose page write goes through
\* returns success on a key that db_get finds and leaves db_get(k) reporting
\* ENOENT; on a key db_get does not find it returns ENOENT and changes neither
\* the file nor the header nor the index.
C6_DeleteRemoves ==
    [][(ret'.op = "delete" /\ ret'.rc # "EIO") =>
          /\ View[ret'.key].found =>
                (ret'.rc = "OK" /\ View'[ret'.key] = NotFound)
          /\ View[ret'.key] = NotFound =>
                (ret'.rc = "ENOENT" /\ UNCHANGED << file, handle >>)]_vars

\* C7: a db_delete(k) that fails in the page write of free_page returns the
\* failure and leaves free_list_head (the whole header), the index and the
\* outcome of db_get for every key as they were.
C7_FailedDeleteKeeps ==
    [][(ret'.op = "delete" /\ ret'.rc = "EIO") =>
          /\ header' = header
          /\ index' = index
          /\ View' = View]_vars

\* a failed db_delete of a key that db_get still finds, with a page on the
\* free list
C7_Witness ==
    /\ ret.op = "delete" /\ ret.rc = "EIO"
    /\ is_open
    /\ View[ret.key].found
    /\ header.free_list_head # 0

\* C8: db_open of an existing file whose header page has a wrong magic, a
\* wrong version or a page_size other than PAGE_SIZE yields no handle and
\* leaves the file as it was; the errno is EINVAL whenever the header could be
\* read.
C8_InvalidRejected ==
    [][( /\ ret'.op = "open"
         /\ file_exists /\ CanRead(file_size, 0)
         /\ \/ disk_hdr.magic # MAGIC
            \/ disk_hdr.version # VERSION
            \/ disk_hdr.page_size # PAGE_SIZE ) =>
          /\ ~is_open'
          /\ UNCHANGED file
          /\ faults' = faults => ret'.rc = "EINVAL"]_vars

\* a rejected db_open of a file with the right magic and a wrong version
C8_Witness ==
    /\ ret.op = "open" /\ ret.rc = "EINVAL"
    /\ ~is_open
    /\ file_exists /\ file_size = 1
    /\ disk_hdr.magic = MAGIC /\ disk_hdr.version # VERSION

\* C9: a db_open that creates the file yields the header MAGIC, VERSION,
\* PAGE_SIZE, num_pages 1, next_free_page 1, free_list_head 0 and an empty
\* index; a db_open of an existing file loads the stored header as it is, and a
\* db_get or db_close on a handle that has seen no db_put and no db_delete
\* leaves the stored header as it is.
C9_FreshAndIdle ==
    [][ /\ (ret'.op = "open" /\ ret'.rc = "OK" /\ ret'.created) =>
              /\ header' = Header(MAGIC, VERSION, PAGE_SIZE, 1, 1, 0)
              /\ disk_hdr' = header'
              /\ IndexEntries(index') = { }
        /\ (ret'.op = "open" /\ ret'.rc = "OK" /\ ~ret'.created) =>
              /\ header' = disk_hdr
              /\ disk_hdr' = disk_hdr
        /\ (idle /\ ret'.op = "get") =>
              /\ idle'
              /\ header' = header
              /\ disk_hdr' = disk_hdr
        /\ (idle /\ ret'.op = "close") => disk_hdr' = disk_hdr ]_vars

\* a reopen that follows a db_close and finds the header of a fresh file
C9_Witness ==
    /\ ret.op = "open" /\ ret.rc = "OK" /\ ~ret.created
    /\ at_close.valid
    /\ idle
    /\ header = Header(MAGIC, VERSION, PAGE_SIZE, 1, 1, 0)

\* C10: whenever the free list of the handle is non-empty, a db_put that
\* writes its record writes it to the page freed most recently among the
\* freed pages not reused yet (those that received no record since, or those
\* of them that alloc_page has not handed out since, whichever is meant), and
\* leaves next_free_page and num_pages as they were.
C10_LifoReuse ==
    [][(ret'.op = "put" /\ ret'.rc = "OK" /\ header.free_list_head # 0) =>
          /\ freed # << >>
          /\ \/ ret'.page = freed[Len(freed)].page
             \/ /\ FreedIn(freed) # << >>
                /\ ret'.page = FreedIn(freed)[Len(FreedIn(freed))].page
          /\ header'.next_free_page = header.next_free_page
          /\ header'.num_pages = header.num_pages]_vars

\* C11: a db_get(k) whose page read goes through and that follows a successful
\* db_put(k, v) with val_len = 0 reports success with length 0; a db_get
\* reports ENOENT exactly when the index has no entry for the key; so the
\* empty value and absence are never reported alike.
C11_EmptyIsNotAbsent ==
    [][(ret'.op = "get" /\ faults' = faults) =>
          /\ ( /\ ret.op = "put" /\ ret.rc = "OK"
               /\ ret.key = ret'.key /\ ret.val_len = 0 ) =>
                (ret'.rc = "OK" /\ ret'.val_len = 0 /\ ret'.val = << >>)
          /\ ret'.rc = "ENOENT" <=>
                hash_table_lookup(index, ret'.key, ret'.key_len) = 0
          /\ ret'.rc \in {"OK", "ENOENT"}]_vars

\* a db_get that found the empty value while the other key is absent
C11_Witness ==
    /\ ret.op = "get" /\ ret.rc = "OK" /\ ret.val_len = 0
    /\ ret.key = << 27, 0 >>
    /\ View[<< 27, 0 >>] = Found(<< >>)
    /\ View[<< 27 >>] = NotFound

\* C12: as long as no transfer has failed and the process has not stopped,
\* every page p with 1 <= p < next_free_page of an open handle is either a
\* DATA page named by exactly one index entry, or a page of the free list named
\* by no index entry, never both; the free list holds no page twice, stays
\* below next_free_page and ends at 0.
C12_PagePartition ==
    (faults = 0 /\ is_open) =>
        LET fl == FreeList(header, disk)
            OnList(p) == \E i \in 1..Len(fl) : fl[i] = p
            Live(p) == disk[p].page_type = PAGE_TYPE_DATA /\ Refs(index, p) = 1
        IN  /\ \A p \in 1..(header.next_free_page - 1) :
                  \/ Live(p) /\ ~OnList(p)
                  \/ OnList(p) /\ Refs(index, p) = 0
                               /\ disk[p].page_type = PAGE_TYPE_DELETED
            /\ \A i \in 1..Len(fl) : fl[i] \in 1..(header.next_free_page - 1)
            /\ \A i, j \in 1..Len(fl) : fl[i] = fl[j] => i = j
            /\ Len(fl) <= MaxPage

\* two pages on the free list, the one freed last at its head
C12_Witness ==
    /\ faults = 0 /\ is_open
    /\ header.next_free_page = 3
    /\ FreeList(header, disk) = << 1, 2 >>
    /\ IndexEntries(index) = { }

\* C13: when the process stopped with the handle open (nothing else went
\* wrong) and the file is opened again, no page of the free list the reloaded
\* header names is named by an entry of the rebuilt index.
C13_CrashLeaksOnly ==
    [][( /\ ret.op = "crash" /\ ret.rc = "STOPPED" /\ faults = 1
         /\ ret'.op = "open" /\ ret'.rc = "OK" /\ faults' = 1 ) =>
          LET fl == FreeList(header', disk')
          IN  \A i \in 1..Len(fl) : Refs(index', fl[i]) = 0]_vars

\* C14: a db_put on a key that has a record frees the old page and removes the
\* old index entry only after the new page is written: when the call fails
\* with EIO, whatever the point of the failure, the old page is still a DATA
\* page on disk and the index still resolves the key to it.
C14_WriteBeforeRetire ==
    [][LET old == hash_table_lookup(index, ret'.key, ret'.key_len)
       IN  ( /\ ret'.op = "put" /\ ret'.rc = "EIO"
             /\ old # 0 /\ disk[old].page_type = PAGE_TYPE_DATA ) =>
              /\ disk'[old].page_type = PAGE_TYPE_DATA
              /\ hash_table_lookup(index', ret'.key, ret'.key_len) = old]_vars

\* C15: in every reachable state of an open handle, also after page writes
\* failed and after db_open rebuilt the index, no two index entries hold the
\* same key and no two name the same page.
C15_IndexUnique ==
    is_open =>
        /\ \A b \in DOMAIN index : \A i, j \in 1..Len(index[b]) :
              ( /\ index[b][i].key_len = index[b][j].key_len
                /\ index[b][i].key = index[b][j].key ) => i = j
        /\ \A p \in 1..(MaxPage + 1) : Refs(index, p) <= 1

\* C16: a db_put that fails because alloc_page could not read the page at the
\* head of the free list (it got no page) returns EIO and leaves
\* free_list_head, next_free_page, num_pages, the index and every page of the
\* file as they were.
C16_AllocFailureFrame ==
    [][(ret'.op = "put" /\ ret'.rc = "EIO" /\ ret'.page = 0) =>
          /\ header.free_list_head # 0
          /\ header' = header
          /\ index' = index
          /\ UNCHANGED file]_vars

\* a db_put that got no page on a handle with a free page and a key present
C16_Witness ==
    /\ ret.op = "put" /\ ret.rc = "EIO" /\ ret.page = 0
    /\ is_open
    /\ header.free_list_head # 0
    /\ \E k \in Keys : View[k].found

\* C17: in every reachable state of an open handle next_free_page >= 1 and no
\* index entry names page 0; a successful db_put got a page other than 0; and
\* every page a db_put, db_get or db_delete reads or writes (the head of the
\* free list, the page given by alloc_page, the page the index names for the
\* key) has a number p with 1 <= p < next_free_page, next_free_page taken
\* after the call.
C17_PageBounds ==
    [][LET InRange(p) == 1 <= p /\ p < header'.next_free_page
           at == hash_table_lookup(index, ret'.key, ret'.key_len)
       IN  /\ is_open' =>
                /\ header'.next_free_page >= 1
                /\ \A e \in IndexEntries(index') : e.page_num # 0
           /\ (ret'.op \in {"get", "delete"} /\ ret'.rc # "STOPPED" /\ at # 0)
                => InRange(at)
           /\ (ret'.op = "put" /\ ret'.rc = "OK") => ret'.page # 0
           /\ (ret'.op = "put" /\ ret'.rc \in {"OK", "EIO"}) =>
                /\ header.free_list_head # 0 => InRange(header.free_list_head)
                /\ ret'.page # 0 => InRange(ret'.page)
                /\ (ret'.page # 0 /\ at # 0) => InRange(at)]_vars

\* C18: in a run of calls without failed transfers or process stops on a
\* fresh store, the number of pages handed out, next_free_page - 1, never
\* exceeds one more than the largest number of keys present at a time.
C18_BoundedGrowth ==
    (grow.on /\ faults = 0 /\ is_open) =>
        header.next_free_page - 1 <= grow.peak + 1

\* one key at a time, put over and over: two pages, one of them free
C18_Witness ==
    /\ grow.on /\ is_open
    /\ grow.peak = 1
    /\ ret.op = "put" /\ ret.rc = "OK" /\ ret.page = 1
    /\ header.next_free_page = 3
    /\ header.free_list_head = 2

\* C19: num_pages and next_free_page of an open handle are equal in every
\* reachable state; as long as no transfer has failed and the process has not
\* stopped they never decrease from call to call, a db_delete and a db_put
\* that finds a page on the free list leave both as they were, and a db_open
\* after a db_close loads the values the handle had at the close.
C19_CountersGrow ==
    [][LET Same == /\ header'.next_free_page = header.next_free_page
                   /\ header'.num_pages = header.num_pages
       IN  /\ is_open' => header'.num_pages = header'.next_free_page
           /\ (faults' = 0 /\ is_open /\ is_open') =>
                /\ header'.next_free_page >= header.next_free_page
                /\ header'.num_pages >= header.num_pages
           /\ (faults' = 0 /\ ret'.op = "delete") => Same
           /\ (faults' = 0 /\ ret'.op = "put" /\ header.free_list_head # 0)
                => Same
           /\ (faults' = 0 /\ ret'.op = "open" /\ ret'.rc = "OK"
                 /\ at_close.valid) =>
                /\ header'.next_free_page = at_close.header.next_free_page
                /\ header'.num_pages = at_close.header.num_pages]_vars

\* a db_delete on a handle that has handed out two pages
C19_Witness ==
    /\ faults = 0 /\ is_open
    /\ ret.op = "delete" /\ ret.rc = "OK"
    /\ header.next_free_page = 3 /\ header.num_pages = 3
    /\ Len(FreeList(header, disk)) = 1

\* C20: a db_get that returns, whether it found the key, found nothing or
\* failed to read the page, leaves the header of the handle, the index, the
\* header on disk and every page of the file as they were; a db_get the
\* process does not survive has written nothing to the file either.
C20_GetReadOnly ==
    [][ret'.op = "get" =>
         /\ UNCHANGED file
         /\ ret'.rc \in {"OK", "ENOENT", "EIO"} =>
              /\ header' = header
              /\ index' = index
              /\ is_open' = is_open]_vars

\* a db_get whose read failed on a handle that still indexes the key
C20_Witness ==
    /\ is_open
    /\ ret.op = "get" /\ ret.rc = "EIO"
    /\ hash_table_lookup(index, ret.key, ret.key_len) # 0
    /\ header.free_list_head # 0

====
